---- MODULE Spec2Model ----
(***************************************************************************)
(* A model of mdweb's indexing engine (src/indexer.js): the in-memory      *)
(* inverted index FileIndex, the startup synchronisation initializeIndex,  *)
(* the scheduled synchronisation rebuildIndexCache and the timer armed by  *)
(* scheduleRebuild, together with the environment they run in (the data    *)
(* directory, the two cache artifacts, process termination).               *)
(*                                                                         *)
(* Modelling conventions                                                   *)
(*  - A character is its UTF-16 code unit (a number); a text is a sequence *)
(*    of characters, 10 being the line feed.                               *)
(*  - A JS Map and a JS object are sequences of <<key, value>> pairs in    *)
(*    insertion order, which is the order JS iterates and serialises them. *)
(*  - A file of the data directory has a version: its modification time    *)
(*    is the version number and its content is ContentOf(version), so each *)
(*    new content carries a new timestamp.  Readability is separate, as a  *)
(*    permission change leaves the modification time alone.                *)
(*  - The cache file names (lines 209-217, 378-386) are fixed for one data *)
(*    directory; the model has one data directory and assumes the runtime  *)
(*    resolves require('crypto').                                          *)
(*  - lastRebuildTime is only ever printed and is left out.                *)
(*  - Three specifications share the variables: Spec is the synchronised   *)
(*    process in its environment, a sync being one step; IndexSpec is one  *)
(*    FileIndex driven call by call (addFile, removeFile, search,          *)
(*    serialize and deserialize) on freely chosen arguments; LoopSpec is   *)
(*    the event loop of one process, a sync advancing from one I/O call    *)
(*    to the next while timer callbacks and queries wait for the stack.    *)
(*    Spec and IndexSpec leave each other's variables alone.               *)
(*  - A call that throws is its state at the throw plus a threw flag.      *)
(***************************************************************************)
EXTENDS Integers, Sequences, FiniteSets, TLC

\* ------------------------------------------------------------------ bounds

\* Number of .md files that may exist under the data directory.
NumPaths == 2

\* Number of versions (modification times) a file may go through.
MaxVer == 2

\* Number of changes the environment makes in one run: files written,
\* deleted or re-permissioned, cache artifacts deleted or damaged.
MaxChanges == 3

\* Number of documents a FileIndex driven call by call may hold.
MaxDocs == 3

\* Number of documents of the corpus that fills more than one result page.
MaxBulk == 16

\* Number of calls with freely chosen arguments made on one FileIndex.
MaxCalls == 4

\* Number of synchroniser invocations the event loop model lets be in
\* progress at once.
MaxDepth == 2

\* ------------------------------------------------------------ the file set

FileNames == <<"a.md", "b.md", "c.md", "d.md">>

\* A path is its sequence of components; collectFiles joins dir and name.
PathAt(i) == <<"data", FileNames[i]>>

Paths == {PathAt(i) : i \in 1..NumPaths}

\* path.basename(filepath)
Basename(p) == p[Len(p)]

\* Sample texts: "a", "b\na", "a b", "B_1".
Texts == << <<97>>, <<98, 10, 97>>, <<97, 32, 98>>, <<66, 95, 49>> >>

\* The content a file holds in version v.
ContentOf(v) == Texts[((v - 1) % Len(Texts)) + 1]

\* --------------------------------------------------- ordered maps (JS Map)

RECURSIVE MapFind(_, _, _)
\* Position of key k in map m at or after position i, 0 when absent.
MapFind(m, k, i) ==
  IF i > Len(m) THEN 0
  ELSE IF m[i][1] = k THEN i
  ELSE MapFind(m, k, i + 1)

MapHas(m, k) == MapFind(m, k, 1) # 0

MapGet(m, k) == m[MapFind(m, k, 1)][2]

\* Map.prototype.set: replaces in place, or appends a new key.
MapSet(m, k, v) ==
  IF MapHas(m, k)
  THEN [m EXCEPT ![MapFind(m, k, 1)] = <<k, v>>]
  ELSE Append(m, <<k, v>>)

\* Array.prototype.splice(i, 1)
Splice(s, i) == SubSeq(s, 1, i - 1) \o SubSeq(s, i + 1, Len(s))

\* Map.prototype.delete
MapDelete(m, k) ==
  IF MapHas(m, k) THEN Splice(m, MapFind(m, k, 1)) ELSE m

MapKeys(m) == {m[i][1] : i \in 1..Len(m)}

\* The elements of a sequence.
Range(s) == {s[i] : i \in 1..Len(s)}

\* --------------------------------------------------------------- tokenizer

\* /[\u4E00-\u9FFF\u3040-\u309F\uAC00-\uD7AF]/ as code-unit ranges.
cjkRegex(c) ==
  \/ c \in 19968..40959
  \/ c \in 12352..12447
  \/ c \in 44032..55215

\* \w of a JS regular expression without the u flag: [A-Za-z0-9_]
IsWordChar(c) ==
  \/ c \in 48..57
  \/ c \in 65..90
  \/ c = 95
  \/ c \in 97..122

\* String.prototype.toLowerCase on the characters of the model (ASCII).
ToLowerCase(text) ==
  [i \in 1..Len(text) |-> IF text[i] \in 65..90 THEN text[i] + 32 ELSE text[i]]

\* text.match(/\b\w+\b/g): the maximal runs of word characters.
WordMatches(text) ==
  {SubSeq(text, ij[1], ij[2]) :
     ij \in {x \in (1..Len(text)) \X (1..Len(text)) :
               /\ x[1] <= x[2]
               /\ \A k \in x[1]..x[2] : IsWordChar(text[k])
               /\ (x[1] = 1 \/ ~IsWordChar(text[x[1] - 1]))
               /\ (x[2] = Len(text) \/ ~IsWordChar(text[x[2] + 1]))}}

tokenize(text) ==
  {<<text[i]>> : i \in {k \in 1..Len(text) : cjkRegex(text[k])}}
    \cup WordMatches(ToLowerCase(text))

\* --------------------------------------------------------------- FileIndex

\* new FileIndex()
NewFileIndex == [files |-> <<>>, filesList |-> <<>>, wordIndex |-> <<>>]

\* wordIndex.get(word).add(fileIndex) for every word of words
AddPostings(wordIndex, words, fileIndex) ==
  [w \in (DOMAIN wordIndex) \cup words |->
     (IF w \in DOMAIN wordIndex THEN wordIndex[w] ELSE {})
       \cup (IF w \in words THEN {fileIndex} ELSE {})]

\* Ordinals are zero-based: filesList[i] of the source is filesList[i + 1] here.
addFile(ix, filepath, filename, content, mtime) ==
  LET fileIndex == Len(ix.filesList)
  IN  [files |-> MapSet(ix.files, filepath,
                        [filename |-> filename, content |-> content, mtime |-> mtime]),
       filesList |-> Append(ix.filesList, [path |-> filepath, name |-> filename]),
       wordIndex |-> AddPostings(ix.wordIndex, tokenize(content), fileIndex)]

RECURSIVE RebuildFrom(_, _, _, _)
\* The loop of _rebuildIndices from position i (zero-based) on.
RebuildFrom(files, filesList, i, newWordIndex) ==
  IF i >= Len(filesList) THEN newWordIndex
  ELSE RebuildFrom(files, filesList, i + 1,
         AddPostings(newWordIndex,
                     tokenize(MapGet(files, filesList[i + 1].path).content), i))

\* Lines 55-56: fileData.content is a TypeError when some entry of filesList
\* has no entry in files, which is the case after two addFile calls on one
\* path and one removeFile.
RebuildThrows(files, filesList) ==
  \E i \in 1..Len(filesList) : ~MapHas(files, filesList[i].path)

\* The index after _rebuildIndices: when the loop throws, line 64 is not
\* reached and wordIndex stays as it was.
rebuildIndices(ix) ==
  IF RebuildThrows(ix.files, ix.filesList) THEN ix
  ELSE [ix EXCEPT !.wordIndex = RebuildFrom(ix.files, ix.filesList, 0, <<>>)]

RECURSIVE FindIndex(_, _, _)
\* filesList.findIndex(f => f.path === filepath), zero-based, -1 when absent.
FindIndex(filesList, filepath, i) ==
  IF i >= Len(filesList) THEN -1
  ELSE IF filesList[i + 1].path = filepath THEN i
  ELSE FindIndex(filesList, filepath, i + 1)

\* wordIndex.get(word)?.delete(fileIndex) for every word of words
DeletePostings(wordIndex, words, fileIndex) ==
  [w \in DOMAIN wordIndex |->
     IF w \in words THEN wordIndex[w] \ {fileIndex} ELSE wordIndex[w]]

\* A removeFile that removes nothing.
removeFileNothing(ix, filepath) == ix

\* Lines 30-49 without the call of _rebuildIndices.
removeFileNoRebuild(ix, filepath) ==
  IF ~MapHas(ix.files, filepath) THEN ix
  ELSE LET fileIndex == FindIndex(ix.filesList, filepath, 0)
       IN  IF fileIndex = -1 THEN ix
           ELSE [files |-> MapDelete(ix.files, filepath),
                 filesList |-> Splice(ix.filesList, fileIndex + 1),
                 wordIndex |->
                   DeletePostings(ix.wordIndex,
                                  tokenize(MapGet(ix.files, filepath).content),
                                  fileIndex)]

\* The index after removeFile, also when its _rebuildIndices call throws.
removeFile(ix, filepath) ==
  IF ~MapHas(ix.files, filepath) THEN ix
  ELSE LET fileIndex == FindIndex(ix.filesList, filepath, 0)
       IN  IF fileIndex = -1 THEN ix
           ELSE rebuildIndices(
                  [files |-> MapDelete(ix.files, filepath),
                   filesList |-> Splice(ix.filesList, fileIndex + 1),
                   wordIndex |->
                     DeletePostings(ix.wordIndex,
                                    tokenize(MapGet(ix.files, filepath).content),
                                    fileIndex)])

\* removeFile throws: it got as far as _rebuildIndices, which threw.
removeFileThrows(ix, filepath) ==
  /\ MapHas(ix.files, filepath)
  /\ FindIndex(ix.filesList, filepath, 0) # -1
  /\ RebuildThrows(MapDelete(ix.files, filepath),
                   Splice(ix.filesList, FindIndex(ix.filesList, filepath, 0) + 1))

\* JSON.stringify({files: Array.from(files.entries()), filesList}): the posting
\* lists are not part of the snapshot.
serialize(ix) ==
  [kind |-> "json", data |-> [files |-> ix.files, filesList |-> ix.filesList]]

\* JSON.parse of a file's text: fails on a file that is not JSON.
ParseFails(file) == file.kind # "json"

\* deserialize(json), for a json that parses.
deserialize(ix, json) ==
  rebuildIndices([files |-> json.data.files,
                  filesList |-> json.data.filesList,
                  wordIndex |-> ix.wordIndex])

\* ------------------------------------------------------------------ search

\* The fixed page size: perPage = 15 (line 82).
PerPage == 15

RECURSIVE SplitFrom(_, _, _)
\* content.split('\n') from position i on, cur being the line under way.
SplitFrom(text, i, cur) ==
  IF i > Len(text) THEN <<cur>>
  ELSE IF text[i] = 10 THEN <<cur>> \o SplitFrom(text, i + 1, <<>>)
  ELSE SplitFrom(text, i + 1, Append(cur, text[i]))

split(text) == SplitFrom(text, 1, <<>>)

RECURSIVE indexOf(_, _, _)
\* line.indexOf(query, searchPos), zero-based, -1 when there is none.
indexOf(line, query, searchPos) ==
  IF searchPos + Len(query) > Len(line) THEN -1
  ELSE IF SubSeq(line, searchPos + 1, searchPos + Len(query)) = query THEN searchPos
  ELSE indexOf(line, query, searchPos + 1)

\* line.includes(query)
includes(line, query) == indexOf(line, query, 0) # -1

RECURSIVE CountInLine(_, _, _)
\* Lines 102-106: occurrences of query in line, each search resuming after
\* the end of the last occurrence.
CountInLine(line, query, searchPos) ==
  IF indexOf(line, query, searchPos) = -1 THEN 0
  ELSE 1 + CountInLine(line, query, indexOf(line, query, searchPos) + Len(query))

RECURSIVE SumOver(_, _, _)
\* The sum of f[i] over i in lo..hi.
SumOver(f, lo, hi) == IF lo > hi THEN 0 ELSE f[lo] + SumOver(f, lo + 1, hi)

\* Lines 99-107: the phrase-mode count of a content.
PhraseCount(content, query) ==
  LET lines == split(content)
  IN  SumOver([i \in 1..Len(lines) |-> CountInLine(lines[i], query, 0)],
              1, Len(lines))

\* Lines 139-146: the token-mode count, the lines that include the query.
LineCount(content, query) ==
  Cardinality({i \in 1..Len(split(content)) : includes(split(content)[i], query)})

\* Lines 84-86: query.match(cjkRegex).length > 1
isMultiCJK(query) ==
  Cardinality({i \in 1..Len(query) : cjkRegex(query[i])}) > 1

RECURSIVE AppendNew(_, _)
\* Set.prototype.add of every element of seq, in order, onto the set whose
\* insertion order is acc.
AppendNew(acc, seq) ==
  IF seq = <<>> THEN acc
  ELSE AppendNew(IF \E i \in 1..Len(acc) : acc[i] = Head(seq)
                 THEN acc ELSE Append(acc, Head(seq)),
                 Tail(seq))

RECURSIVE WordsFrom(_, _)
\* The matches of /\b\w+\b/g in text at or after position i, in order.
WordsFrom(text, i) ==
  IF i > Len(text) THEN <<>>
  ELSE IF ~IsWordChar(text[i]) THEN WordsFrom(text, i + 1)
  ELSE LET j == CHOOSE k \in i..Len(text) :
                  /\ \A n \in i..k : IsWordChar(text[n])
                  /\ (k = Len(text) \/ ~IsWordChar(text[k + 1]))
       IN  <<SubSeq(text, i, j)>> \o WordsFrom(text, j + 1)

\* The insertion order of the Set tokenize returns: the CJK characters as
\* they occur, then the words as they occur (lines 72-77).
tokenizeOrder(text) ==
  AppendNew(AppendNew(<<>>,
              [k \in 1..Len(SelectSeq(text, cjkRegex)) |->
                 <<SelectSeq(text, cjkRegex)[k]>>]),
            WordsFrom(ToLowerCase(text), 1))

RECURSIVE SetToSeq(_)
\* The ordinals of a posting set in insertion order, which is ascending:
\* addFile and _rebuildIndices add them in increasing order.
SetToSeq(S) ==
  IF S = {} THEN <<>>
  ELSE LET m == CHOOSE x \in S : \A y \in S : x <= y
       IN  <<m>> \o SetToSeq(S \ {m})

\* Lines 122-127 with an intersection in place of the union: the ordinals
\* that every token's posting set holds.
MatchingFileIndicesOfAll(wordIndex, queryTokens, i, acc) ==
  SetToSeq({idx \in UNION {wordIndex[t] : t \in DOMAIN wordIndex} :
              \A k \in 1..Len(queryTokens) :
                /\ queryTokens[k] \in DOMAIN wordIndex
                /\ idx \in wordIndex[queryTokens[k]]})

RECURSIVE MatchingFileIndices(_, _, _, _)
\* Lines 122-127: the insertion order of matchingFileIndices.
MatchingFileIndices(wordIndex, queryTokens, i, acc) ==
  IF i > Len(queryTokens) THEN acc
  ELSE MatchingFileIndices(wordIndex, queryTokens, i + 1,
         AppendNew(acc, IF queryTokens[i] \in DOMAIN wordIndex
                        THEN SetToSeq(wordIndex[queryTokens[i]]) ELSE <<>>))

\* Lines 95-118: the documents with a positive phrase count, by ordinal.
PhraseMatched(ix, query) ==
  LET entry(idx) ==
        [index |-> idx,
         path |-> ix.filesList[idx + 1].path,
         name |-> ix.filesList[idx + 1].name,
         content |-> MapGet(ix.files, ix.filesList[idx + 1].path).content,
         matches |-> PhraseCount(MapGet(ix.files, ix.filesList[idx + 1].path).content,
                                 query)]
      all == [k \in 1..Len(ix.filesList) |-> entry(k - 1)]
  IN  SelectSeq(all, LAMBDA e : e.matches > 0)

\* Lines 121-146: the candidates of the posting lists, in the order the Set
\* yields them, each with its count of lines that include the query.
TokenMatched(ix, query) ==
  LET indices == MatchingFileIndices(ix.wordIndex, tokenizeOrder(query), 1, <<>>)
  IN  [k \in 1..Len(indices) |->
         [index |-> indices[k],
          path |-> ix.filesList[indices[k] + 1].path,
          name |-> ix.filesList[indices[k] + 1].name,
          content |-> MapGet(ix.files, ix.filesList[indices[k] + 1].path).content,
          matches |-> LineCount(MapGet(ix.files,
                                       ix.filesList[indices[k] + 1].path).content,
                                query)]]

\* search throws a TypeError: line 97 or 134 reads .content of a document
\* that files does not hold, or line 132 reads .path of a position that
\* filesList does not have.
searchThrows(ix, query) ==
  IF isMultiCJK(query) THEN RebuildThrows(ix.files, ix.filesList)
  ELSE \E idx \in Range(MatchingFileIndices(ix.wordIndex, tokenizeOrder(query),
                                            1, <<>>)) :
         \/ idx >= Len(ix.filesList)
         \/ ~MapHas(ix.files, ix.filesList[idx + 1].path)

\* Lines 88-147: matchedFiles before the sort, for a search that does not throw.
matchedFiles(ix, query) ==
  IF isMultiCJK(query) THEN PhraseMatched(ix, query) ELSE TokenMatched(ix, query)

RECURSIVE InsertBeforeEqual(_, _)
\* An insertion that puts file in front of the entries with the same count.
InsertBeforeEqual(sorted, file) ==
  IF sorted = <<>> THEN <<file>>
  ELSE IF Head(sorted).matches > file.matches
       THEN <<Head(sorted)>> \o InsertBeforeEqual(Tail(sorted), file)
       ELSE <<file>> \o sorted

RECURSIVE InsertByMatches(_, _)
\* Puts file behind every entry of sorted that the comparator does not order
\* after it (b.matches - a.matches <= 0).
InsertByMatches(sorted, file) ==
  IF sorted = <<>> THEN <<file>>
  ELSE IF Head(sorted).matches >= file.matches
       THEN <<Head(sorted)>> \o InsertByMatches(Tail(sorted), file)
       ELSE <<file>> \o sorted

RECURSIVE SortFrom(_, _, _)
SortFrom(files, i, sorted) ==
  IF i > Len(files) THEN sorted
  ELSE SortFrom(files, i + 1, InsertByMatches(sorted, files[i]))

\* Line 149: Array.prototype.sort with (a, b) => b.matches - a.matches, which
\* is a stable sort in the Node the Dockerfile names (node:22).
sort(files) == SortFrom(files, 1, <<>>)

\* The characters String.prototype.trim strips.
IsWhiteSpace(c) ==
  c \in {9, 10, 11, 12, 13, 32, 160, 5760, 8232, 8233, 8239, 8287, 12288, 65279}
        \cup (8192..8202)

RECURSIVE trim(_)
trim(line) ==
  IF line = <<>> THEN line
  ELSE IF IsWhiteSpace(Head(line)) THEN trim(Tail(line))
  ELSE IF IsWhiteSpace(line[Len(line)]) THEN trim(SubSeq(line, 1, Len(line) - 1))
  ELSE line

\* Lines 153-162: the lines that include the query, with their numbers.
AllHits(content, query) ==
  LET lines == split(content)
      hit(idx) == [lineNum |-> idx + 1, content |-> trim(lines[idx + 1])]
  IN  SelectSeq([k \in 1..Len(lines) |-> hit(k - 1)],
                LAMBDA h : includes(lines[h.lineNum], query))

\* Array.prototype.slice(start, end) for 0 <= start <= end.
slice(s, start, end) ==
  SubSeq(s, start + 1, IF end < Len(s) THEN end ELSE Len(s))

\* Lines 152-169 with hits in place of hits.slice(0, 3).
ResultOfAllHits(file, query) ==
  [path |-> file.path, name |-> file.name,
   hits |-> AllHits(file.content, query)]

\* Lines 152-169: the result entry of one ranked file.
ResultOf(file, query) ==
  [path |-> file.path, name |-> file.name,
   hits |-> slice(AllHits(file.content, query), 0, 3)]

\* Lines 149-169: the full ranked result list.
Results(ix, query) ==
  LET ranked == sort(matchedFiles(ix, query))
  IN  [k \in 1..Len(ranked) |-> ResultOf(ranked[k], query)]

\* Math.ceil(n / perPage) for n >= 0
Ceil(n, perPage) == (n + perPage - 1) \div perPage

\* Lines 171-181 without the upper clamp Math.min(page, totalPages).
PaginateNoUpperClamp(results, page, perPage) ==
  LET totalPages == Ceil(Len(results), perPage)
      pageNum == IF page > 1 THEN page ELSE 1
      start == (pageNum - 1) * perPage
  IN  [threw |-> FALSE,
       results |-> slice(results, start, start + perPage),
       page |-> pageNum, totalPages |-> totalPages, total |-> Len(results)]

\* Lines 171-181: the page of results that search returns.
Paginate(results, page, perPage) ==
  LET totalPages == Ceil(Len(results), perPage)
      least == IF page < totalPages THEN page ELSE totalPages
      pageNum == IF least > 1 THEN least ELSE 1
      start == (pageNum - 1) * perPage
  IN  [threw |-> FALSE,
       results |-> slice(results, start, start + perPage),
       page |-> pageNum, totalPages |-> totalPages, total |-> Len(results)]

\* What a call that threw leaves to look at.
Thrown ==
  [threw |-> TRUE, results |-> <<>>, page |-> 0, totalPages |-> 0, total |-> 0]

\* FileIndex.search(query, page, perPage)
search(ix, query, page, perPage) ==
  IF searchThrows(ix, query) THEN Thrown
  ELSE Paginate(Results(ix, query), page, perPage)

\* searchFiles(db, query, page), lines 348-353.
searchFiles(db, query, page) ==
  IF Len(trim(query)) = 0
  THEN [threw |-> FALSE, results |-> <<>>, page |-> 1, totalPages |-> 0, total |-> 0]
  ELSE search(db, trim(query), page, PerPage)

\* ------------------------------------------------- the data directory scan

\* A file that is absent, as a record of the data directory.
NoFile == [ver |-> 0, readable |-> TRUE]

RECURSIVE CollectFrom(_, _)
\* collectFiles: the .md files in enumeration order with their mtimes
\* (statSync needs no read permission on the file itself).
CollectFrom(d, i) ==
  IF i > NumPaths THEN <<>>
  ELSE (IF d[PathAt(i)].ver > 0 THEN << <<PathAt(i), d[PathAt(i)].ver>> >> ELSE <<>>)
         \o CollectFrom(d, i + 1)

collectFiles(d) == CollectFrom(d, 1)

\* fs.readFileSync(filepath, 'utf-8') throws on a file the process may not read.
ReadThrows(d, filepath) == ~d[filepath].readable

readFileSync(d, filepath) == ContentOf(d[filepath].ver)

\* A comparison that calls every file changed.
MTimeDiffersAlways(oldMTimes, filepath, mtime) == TRUE

\* oldMTimes[filepath] !== mtime (a missing key reads as undefined)
MTimeDiffers(oldMTimes, filepath, mtime) ==
  ~MapHas(oldMTimes, filepath) \/ MapGet(oldMTimes, filepath) # mtime

\* A cache artifact that does not exist; one whose text is not JSON.
Absent == [kind |-> "absent"]
Corrupt == [kind |-> "corrupt"]

existsSync(file) == file.kind # "absent"

\* JSON.stringify(mTimes)
StringifyMTimes(mTimes) == [kind |-> "json", data |-> mTimes]

\* Outcomes of the two writeFileSync calls of one sync: both succeed, the
\* first throws, or the second throws.  A write that throws leaves its file
\* as it was.
WriteOutcomes == {"ok", "failCache", "failMTime"}

\* --------------------------------------------------------- initializeIndex

\* Lines 231-242 without the comparison of the two sizes.
CacheChangedIgnoringCount(cachedMTimes, currentFiles) ==
  \E i \in 1..Len(currentFiles) :
    MTimeDiffers(cachedMTimes, currentFiles[i][1], currentFiles[i][2])

\* Lines 231-242: whether the persisted table differs from the scan.
CacheChanged(cachedMTimes, currentFiles) ==
  \/ Len(cachedMTimes) # Len(currentFiles)
  \/ \E i \in 1..Len(currentFiles) :
       MTimeDiffers(cachedMTimes, currentFiles[i][1], currentFiles[i][2])

\* Lines 227-257: the fast path is taken.
FastPath(cache, mtimeF, currentFiles) ==
  /\ existsSync(cache) /\ existsSync(mtimeF)
  /\ ~ParseFails(mtimeF)
  /\ ~CacheChanged(mtimeF.data, currentFiles)
  /\ ~ParseFails(cache)

\* Lines 227-261: the catch clause has set needsRebuild.
NeedsRebuild(cache, mtimeF, currentFiles) ==
  /\ existsSync(cache) /\ existsSync(mtimeF)
  /\ \/ ParseFails(mtimeF)
     \/ ~CacheChanged(mtimeF.data, currentFiles) /\ ParseFails(cache)

\* Lines 263-280: the index the scan starts from.
StartIndex(cache, mtimeF, currentFiles) ==
  IF NeedsRebuild(cache, mtimeF, currentFiles) \/ ~existsSync(cache)
  THEN NewFileIndex
  ELSE IF ParseFails(cache) THEN NewFileIndex
       ELSE deserialize(NewFileIndex, cache)

\* Lines 263-280: which branch was taken.
StartRoute(cache, mtimeF, currentFiles) ==
  IF NeedsRebuild(cache, mtimeF, currentFiles) \/ ~existsSync(cache)
  THEN "full" ELSE "delta"

RECURSIVE IndexChanged(_, _, _, _, _)
\* Lines 288-303: a read that throws is caught per file, after the old entry
\* was removed.  acc = [index, reads].
IndexChanged(d, currentFiles, oldMTimes, i, acc) ==
  IF i > Len(currentFiles) THEN acc
  ELSE LET filepath == currentFiles[i][1]
           mtime == currentFiles[i][2]
           removed == IF MapHas(acc.index.files, filepath)
                      THEN removeFile(acc.index, filepath) ELSE acc.index
       IN  IndexChanged(d, currentFiles, oldMTimes, i + 1,
             IF ~MTimeDiffers(oldMTimes, filepath, mtime) THEN acc
             ELSE IF ReadThrows(d, filepath)
                  THEN [index |-> removed, reads |-> acc.reads]
                  ELSE [index |-> addFile(removed, filepath, Basename(filepath),
                                          readFileSync(d, filepath), mtime),
                        reads |-> acc.reads \cup {filepath}])

RECURSIVE RemoveDeleted(_, _, _, _)
\* Lines 305-311 and 410-416: the keys of oldMTimes missing from the scan.
RemoveDeleted(ix, oldMTimes, currentFiles, i) ==
  IF i > Len(oldMTimes) THEN ix
  ELSE RemoveDeleted(
         IF MapHas(currentFiles, oldMTimes[i][1]) THEN ix
         ELSE removeFile(ix, oldMTimes[i][1]),
         oldMTimes, currentFiles, i + 1)

\* Whether some key of oldMTimes is missing from the scan.
SomeDeleted(oldMTimes, currentFiles) ==
  \E i \in 1..Len(oldMTimes) : ~MapHas(currentFiles, oldMTimes[i][1])

\* Lines 313-321 and 425-426: the cache file after the writes.
WriteCache(cache, ix, wr) ==
  IF wr = "failCache" THEN cache ELSE serialize(ix)

\* Lines 313-321 and 425-426: the modification-time file after the writes.
WriteMTimes(mtimeF, mTimes, wr) ==
  IF wr = "ok" THEN StringifyMTimes(mTimes) ELSE mtimeF

\* The artifacts one sync has written.
Wrote(wr) ==
  IF wr = "ok" THEN {"cache", "mtime"}
  ELSE IF wr = "failMTime" THEN {"cache"} ELSE {}

\* Lines 253 and 324: whether initializeIndex arms the scheduler.
ShouldSchedule(autoRebuildHours) == autoRebuildHours > 0

\* initializeIndex on a process whose index is null: what it returns or
\* throws, what it leaves on disk, which files it has read.
initializeIndex(d, cache, mtimeF, wr) ==
  LET currentFiles == collectFiles(d)
  IN  IF FastPath(cache, mtimeF, currentFiles)
      THEN [threw |-> FALSE, route |-> "fast",
            index |-> deserialize(NewFileIndex, cache),
            cacheFile |-> cache, mTimeFile |-> mtimeF,
            reads |-> {}, wrote |-> {}]
      ELSE IF existsSync(mtimeF) /\ ParseFails(mtimeF)
      THEN \* line 285: JSON.parse throws outside every try block
           [threw |-> TRUE, route |-> StartRoute(cache, mtimeF, currentFiles),
            index |-> NewFileIndex,
            cacheFile |-> cache, mTimeFile |-> mtimeF,
            reads |-> {}, wrote |-> {}]
      ELSE LET oldMTimes == IF existsSync(mtimeF) THEN mtimeF.data ELSE <<>>
               scanned == IndexChanged(d, currentFiles, oldMTimes, 1,
                            [index |-> StartIndex(cache, mtimeF, currentFiles),
                             reads |-> {}])
               ix == RemoveDeleted(scanned.index, oldMTimes, currentFiles, 1)
           IN  [threw |-> FALSE, route |-> StartRoute(cache, mtimeF, currentFiles),
                index |-> ix,
                cacheFile |-> WriteCache(cache, ix, wr),
                mTimeFile |-> WriteMTimes(mtimeF, currentFiles, wr),
                reads |-> scanned.reads, wrote |-> Wrote(wr)]

\* -------------------------------------------------------- rebuildIndexCache

RECURSIVE RebuildChanged(_, _, _, _, _)
\* Lines 398-408: no try block inside the loop, so a read that throws leaves
\* the loop at once, after the old entry was removed.
\* acc = [index, reads, hasChanges, threw].
RebuildChanged(d, currentFiles, oldMTimes, i, acc) ==
  IF i > Len(currentFiles) \/ acc.threw THEN acc
  ELSE LET filepath == currentFiles[i][1]
           mtime == currentFiles[i][2]
           removed == IF MapHas(acc.index.files, filepath)
                      THEN removeFile(acc.index, filepath) ELSE acc.index
       IN  RebuildChanged(d, currentFiles, oldMTimes, i + 1,
             IF ~MTimeDiffers(oldMTimes, filepath, mtime) THEN acc
             ELSE IF ReadThrows(d, filepath)
                  THEN [index |-> removed, reads |-> acc.reads,
                        hasChanges |-> TRUE, threw |-> TRUE]
                  ELSE [index |-> addFile(removed, filepath, Basename(filepath),
                                          readFileSync(d, filepath), mtime),
                        reads |-> acc.reads \cup {filepath},
                        hasChanges |-> TRUE, threw |-> FALSE])

\* rebuildIndexCache on a process whose index is ix: every exception is
\* caught by the one try block around the body (lines 377, 436-438).
rebuildIndexCache(ix, d, cache, mtimeF, wr) ==
  LET currentFiles == collectFiles(d)
  IN  IF existsSync(mtimeF) /\ ParseFails(mtimeF)
      THEN \* line 395: JSON.parse throws
           [threw |-> TRUE, index |-> ix, hasChanges |-> FALSE,
            attempted |-> FALSE, cacheFile |-> cache, mTimeFile |-> mtimeF,
            reads |-> {}, wrote |-> {}]
      ELSE LET oldMTimes == IF existsSync(mtimeF) THEN mtimeF.data ELSE <<>>
               scanned == RebuildChanged(d, currentFiles, oldMTimes, 1,
                            [index |-> ix, reads |-> {},
                             hasChanges |-> FALSE, threw |-> FALSE])
               after == RemoveDeleted(scanned.index, oldMTimes, currentFiles, 1)
               hasChanges == scanned.hasChanges \/ SomeDeleted(oldMTimes, currentFiles)
           IN  IF scanned.threw
               THEN [threw |-> TRUE, index |-> scanned.index, hasChanges |-> TRUE,
                     attempted |-> FALSE, cacheFile |-> cache, mTimeFile |-> mtimeF,
                     reads |-> scanned.reads, wrote |-> {}]
               ELSE IF hasChanges
               THEN [threw |-> wr # "ok", index |-> after, hasChanges |-> TRUE,
                     attempted |-> TRUE,
                     cacheFile |-> WriteCache(cache, after, wr),
                     mTimeFile |-> WriteMTimes(mtimeF, currentFiles, wr),
                     reads |-> scanned.reads, wrote |-> Wrote(wr)]
               ELSE [threw |-> FALSE, index |-> after, hasChanges |-> FALSE,
                     attempted |-> FALSE, cacheFile |-> cache, mTimeFile |-> mtimeF,
                     reads |-> scanned.reads, wrote |-> {}]

\* ---------------------------------------------------------- scheduleRebuild

\* No timer: the null of rebuildSchedule.
NoTimer == 0

\* Lines 355-369 without the clearInterval.
scheduleRebuildNoCancel(t) ==
  [timers |-> t.timers \cup {t.created + 1},
   rebuildSchedule |-> t.created + 1, created |-> t.created + 1]

\* Lines 355-369: clearInterval on the pending timer, then setInterval.
\* t = [timers, rebuildSchedule, created]; created counts the timers the
\* process has made, the next one being a new object.
scheduleRebuild(t) ==
  LET cleared == IF t.rebuildSchedule # NoTimer
                 THEN t.timers \ {t.rebuildSchedule} ELSE t.timers
      id == t.created + 1
  IN  [timers |-> cleared \cup {id}, rebuildSchedule |-> id, created |-> id]

\* A process that has armed nothing.
NoTimers == [timers |-> {}, rebuildSchedule |-> NoTimer, created |-> 0]

\* ------------------------------------------------------------------- state

VARIABLES
  disk,          \* the data directory: path -> [ver, readable], ver 0 = no file
  cacheFile,     \* .mdindex.cache.<hash>: Absent, Corrupt or a snapshot
  mTimeFile,     \* .mdindex.mtime.<hash>: Absent, Corrupt or a table
  index,         \* the module's index: Null or a FileIndex
  timer,         \* [timers, rebuildSchedule, created] of the process
  proc,          \* "down", "crashed" (died inside a sync) or "up"
  scenario,      \* what may go wrong in this run: "crash", "io" or "tamper"
  quiet,         \* the environment has stopped changing anything
  pendingWrite,  \* the latest sync that had to write had a write fail
  changes,       \* how many changes the environment has made
  last,          \* what the latest step did
  fx,            \* a FileIndex driven call by call (addFile, removeFile, search)
  corpus,        \* what the calls on fx are about: "words", "cjk" or "pages"
  calls,         \* how many calls with freely chosen arguments fx has had
  out            \* the latest call on fx and what it returned

\* The state of the synchronised process and of its environment.
syncVars == <<disk, cacheFile, mTimeFile, index, timer, proc, scenario, quiet,
              pendingWrite, changes, last>>

\* The state of the FileIndex driven call by call.
apiVars == <<fx, corpus, calls, out>>

vars == <<disk, cacheFile, mTimeFile, index, timer, proc, scenario, quiet,
          pendingWrite, changes, last, fx, corpus, calls, out>>

\* let index = null (line 200)
Null == [null |-> TRUE]

\* The intervals initializeIndex may be called with (server.js passes 24).
HoursChoices == {-1, 0, 24}

\* The kinds of trouble a run may have: the process dying inside a sync;
\* unreadable files and failing cache writes; cache artifacts deleted or
\* damaged from outside.
Scenarios == {"crash", "io", "tamper"}

\* What a step that is no sync leaves in last.
Step(op) ==
  [op |-> op, route |-> "none", threw |-> FALSE, reads |-> {}, wrote |-> {},
   wr |-> "ok", hasChanges |-> FALSE, hours |-> 0]

\* The result slot of a call that is no search.
NoResult ==
  [threw |-> FALSE, results |-> <<>>, page |-> 0, totalPages |-> 0, total |-> 0]

\* What a call on fx that is no search leaves in out; len is the length of
\* the Document Table before the call.
Call(op) ==
  [op |-> op, path |-> <<>>, len |-> 0, query |-> <<>>, page |-> 0,
   threw |-> FALSE, res |-> NoResult]

Init ==
  /\ disk = [p \in Paths |-> NoFile]
  /\ cacheFile = Absent
  /\ mTimeFile = Absent
  /\ index = Null
  /\ timer = NoTimers
  /\ proc = "down"
  /\ scenario \in Scenarios
  /\ quiet = FALSE
  /\ pendingWrite = FALSE
  /\ changes = 0
  /\ last = Step("none")
  /\ fx = NewFileIndex
  /\ corpus = "words"
  /\ calls = 0
  /\ out = Call("none")

\* --------------------------------------------------------- the environment

\* A file is created, or rewritten with new content and a new mtime.
FileWrite(p, v) ==
  /\ UNCHANGED apiVars
  /\ ~quiet /\ changes < MaxChanges
  /\ disk[p].ver # v
  /\ disk' = [disk EXCEPT ![p].ver = v]
  /\ changes' = changes + 1
  /\ last' = Step("env")
  /\ UNCHANGED <<cacheFile, mTimeFile, index, timer, proc, scenario, quiet,
                 pendingWrite>>

\* A file is deleted.
FileDelete(p) ==
  /\ UNCHANGED apiVars
  /\ ~quiet /\ changes < MaxChanges
  /\ disk[p].ver > 0
  /\ disk' = [disk EXCEPT ![p] = NoFile]
  /\ changes' = changes + 1
  /\ last' = Step("env")
  /\ UNCHANGED <<cacheFile, mTimeFile, index, timer, proc, scenario, quiet,
                 pendingWrite>>

\* A file's read permission is taken away or given back; its mtime stays.
Chmod(p) ==
  /\ UNCHANGED apiVars
  /\ ~quiet /\ changes < MaxChanges /\ scenario = "io"
  /\ disk[p].ver > 0
  /\ disk' = [disk EXCEPT ![p].readable = ~disk[p].readable]
  /\ changes' = changes + 1
  /\ last' = Step("env")
  /\ UNCHANGED <<cacheFile, mTimeFile, index, timer, proc, scenario, quiet,
                 pendingWrite>>

\* Someone deletes or damages a cache artifact.
Tamper(which, to) ==
  /\ UNCHANGED apiVars
  /\ ~quiet /\ changes < MaxChanges /\ scenario = "tamper"
  /\ IF which = "cache"
     THEN /\ existsSync(cacheFile) /\ cacheFile # to
          /\ cacheFile' = to /\ UNCHANGED mTimeFile
     ELSE /\ existsSync(mTimeFile) /\ mTimeFile # to
          /\ mTimeFile' = to /\ UNCHANGED cacheFile
  /\ changes' = changes + 1
  /\ last' = Step("env")
  /\ UNCHANGED <<disk, index, timer, proc, scenario, quiet, pendingWrite>>

\* The process is terminated between two syncs.
Stop ==
  /\ UNCHANGED apiVars
  /\ ~quiet
  /\ proc = "up"
  /\ proc' = "down"
  /\ index' = Null
  /\ timer' = NoTimers
  /\ last' = Step("stop")
  /\ UNCHANGED <<disk, cacheFile, mTimeFile, scenario, quiet, pendingWrite, changes>>

\* From now on nothing but the armed scheduler acts: the files stay as they
\* are, every one readable, and the cache writes succeed.
Quiesce ==
  /\ UNCHANGED apiVars
  /\ ~quiet /\ scenario = "io"
  /\ proc = "up" /\ timer.timers # {}
  /\ \A p \in Paths : disk[p].readable
  /\ quiet' = TRUE
  /\ last' = Step("env")
  /\ UNCHANGED <<disk, cacheFile, mTimeFile, index, timer, proc, scenario,
                 pendingWrite, changes>>

\* ------------------------------------------------------------- the program

\* The write outcomes this run allows a sync.
OutcomePossible(wr) == wr = "ok" \/ (scenario = "io" /\ ~quiet)

\* server.js line 31 on a fresh process: initializeIndex(dataPath, hours),
\* for some interval hours.
\* An exception leaves the process dead (the call is at module top level).
Initialize(wr) ==
  /\ UNCHANGED apiVars
  /\ ~quiet
  /\ proc # "up"
  /\ OutcomePossible(wr)
  /\ \E r \in {initializeIndex(disk, cacheFile, mTimeFile, wr)} :
       /\ (r.threw \/ r.route = "fast") => wr = "ok"
       /\ cacheFile' = r.cacheFile
       /\ mTimeFile' = r.mTimeFile
       /\ index' = IF r.threw THEN Null ELSE r.index
       /\ proc' = IF r.threw THEN "down" ELSE "up"
       /\ pendingWrite' = IF r.threw \/ r.route = "fast" THEN pendingWrite
                          ELSE wr # "ok"
       /\ \E hours \in HoursChoices :
            /\ timer' = IF ~r.threw /\ ShouldSchedule(hours)
                        THEN scheduleRebuild(NoTimers) ELSE NoTimers
            /\ last' = [op |-> "initialize", route |-> r.route, threw |-> r.threw,
                        reads |-> r.reads, wrote |-> r.wrote, wr |-> wr,
                        hasChanges |-> FALSE, hours |-> hours]
  /\ UNCHANGED <<disk, scenario, quiet, changes>>

\* initializeIndex called again in a live process: line 205 returns the
\* index that exists and does nothing else.
InitializeAgain ==
  /\ ~quiet
  /\ proc = "up"
  /\ index # Null
  /\ UNCHANGED vars

\* The interval timer fires: rebuildIndexCache(dataDir).
Tick(wr) ==
  /\ UNCHANGED apiVars
  /\ proc = "up"
  /\ timer.timers # {}
  /\ index # Null
  /\ OutcomePossible(wr)
  /\ \E r \in {rebuildIndexCache(index, disk, cacheFile, mTimeFile, wr)} :
       /\ ~r.attempted => wr = "ok"
       /\ cacheFile' = r.cacheFile
       /\ mTimeFile' = r.mTimeFile
       /\ index' = r.index
       /\ pendingWrite' = IF r.attempted THEN wr # "ok" ELSE pendingWrite
       /\ last' = [op |-> "tick", route |-> "delta", threw |-> r.threw,
                   reads |-> r.reads, wrote |-> r.wrote, wr |-> wr,
                   hasChanges |-> r.hasChanges, hours |-> 0]
  /\ UNCHANGED <<disk, timer, proc, scenario, quiet, changes>>

\* The process dies inside initializeIndex: before the writes, or between
\* the write of the snapshot and the write of the table.
CrashInInitialize(point) ==
  /\ UNCHANGED apiVars
  /\ ~quiet /\ scenario = "crash"
  /\ proc # "up"
  /\ \E r \in {initializeIndex(disk, cacheFile, mTimeFile, "failMTime")} :
       /\ ~r.threw /\ r.route # "fast"
       /\ cacheFile' = IF point = "betweenWrites" THEN r.cacheFile ELSE cacheFile
  /\ proc' = "crashed"
  /\ last' = Step("crash")
  /\ UNCHANGED <<disk, mTimeFile, index, timer, scenario, quiet, pendingWrite, changes>>

\* The process dies inside rebuildIndexCache, at the same two points.
CrashInTick(point) ==
  /\ UNCHANGED apiVars
  /\ ~quiet /\ scenario = "crash"
  /\ proc = "up"
  /\ timer.timers # {}
  /\ \E r \in {rebuildIndexCache(index, disk, cacheFile, mTimeFile, "failMTime")} :
       /\ point = "betweenWrites" => r.attempted
       /\ cacheFile' = IF point = "betweenWrites" THEN r.cacheFile ELSE cacheFile
  /\ proc' = "crashed"
  /\ index' = Null
  /\ timer' = NoTimers
  /\ last' = Step("crash")
  /\ UNCHANGED <<disk, mTimeFile, scenario, quiet, pendingWrite, changes>>

CrashPoints == {"beforeWrites", "betweenWrites"}

Next ==
  \/ \E p \in Paths, v \in 1..MaxVer : FileWrite(p, v)
  \/ \E p \in Paths : FileDelete(p)
  \/ \E p \in Paths : Chmod(p)
  \/ \E which \in {"cache", "mtime"}, to \in {Absent, Corrupt} : Tamper(which, to)
  \/ Stop
  \/ Quiesce
  \/ \E wr \in WriteOutcomes : Initialize(wr)
  \/ InitializeAgain
  \/ \E wr \in WriteOutcomes : Tick(wr)
  \/ \E point \in CrashPoints : CrashInInitialize(point)
  \/ \E point \in CrashPoints : CrashInTick(point)

Spec == Init /\ [][Next]_vars

\* ------------------------------------------- a FileIndex driven call by call

\* The paths the calls name.
CallPaths == {PathAt(1), PathAt(2), PathAt(3)}

\* The path of the i-th document of the corpus that fills the result pages.
DocPath(i) == <<"data", ToString(i) \o ".md">>

\* Two Han ideographs, two Hiragana, two Katakana, two Hangul syllables.
Han == <<20013, 25991>>
Hiragana == <<12354, 12356>>
Katakana == <<12450, 12452>>
Hangul == <<44032, 45208>>

\* The contents the calls add: "a"; "b"; "a", " a b", "b", "a", "a" on five
\* lines; the two Han ideographs side by side; the same two apart on one line
\* and reversed on the next; one line for each of the other three scripts
\* and a line with the two ideographs twice.
CallTexts ==
  << <<97>>,
     <<98>>,
     <<97, 10, 32, 97, 32, 98, 10, 98, 10, 97, 10, 97>>,
     Han,
     <<Han[1], 32, Han[2], 10, Han[2], Han[1]>>,
     Hiragana \o <<10>> \o Katakana \o <<10>> \o Hangul \o <<10>> \o Han \o Han >>

\* What a run's calls are about: words and lines, the CJK scripts, or a
\* corpus that fills more than one page of results.
Corpora == {"words", "cjk", "pages"}

\* The contents (positions of CallTexts) the calls of a run add.
TextsOf(c) ==
  IF c = "words" THEN {1, 2, 3} ELSE IF c = "cjk" THEN {4, 5, 6} ELSE {}

\* The queries of a run: "a", "b", "a b", " A " and ""; one ideograph and two
\* characters of each script; "a" and "b".
QueriesOf(c) ==
  IF c = "words" THEN {<<97>>, <<98>>, <<97, 32, 98>>, <<32, 65, 32>>, <<>>}
  ELSE IF c = "cjk" THEN {<<Han[1]>>, Han, Hiragana, Katakana, Hangul}
  ELSE {<<97>>, <<98>>}

\* The pages a run asks for.
PagesOf(c) == IF c = "pages" THEN {-1, 0, 1, 2, 3} ELSE {1, 2}

\* The index holds the first n documents of the page-filling corpus, each
\* with the content "a".
IsBulk(ix, n) ==
  /\ Len(ix.filesList) = n
  /\ \A i \in 1..n : /\ ix.filesList[i].path = DocPath(i)
                     /\ MapHas(ix.files, DocPath(i))
                     /\ MapGet(ix.files, DocPath(i)).content = CallTexts[1]

IndexInit ==
  /\ disk = [p \in Paths |-> NoFile]
  /\ cacheFile = Absent
  /\ mTimeFile = Absent
  /\ index = Null
  /\ timer = NoTimers
  /\ proc = "down"
  /\ scenario = "io"
  /\ quiet = FALSE
  /\ pendingWrite = FALSE
  /\ changes = 0
  /\ last = Step("none")
  /\ fx = NewFileIndex
  /\ corpus \in Corpora
  /\ calls = 0
  /\ out = Call("none")

\* fx.addFile(p, basename, content, mtime), whether or not p is indexed.
CallAddFile(p, t) ==
  /\ t \in TextsOf(corpus)
  /\ calls < MaxCalls
  /\ Len(fx.filesList) < MaxDocs
  /\ fx' = addFile(fx, p, Basename(p), CallTexts[t], t)
  /\ out' = [Call("add") EXCEPT !.path = p, !.len = Len(fx.filesList)]
  /\ calls' = calls + 1
  /\ UNCHANGED <<syncVars, corpus>>

\* fx.addFile of the next document of the page-filling corpus.
CallAddNext ==
  /\ corpus = "pages"
  /\ Len(fx.filesList) < MaxBulk
  /\ IsBulk(fx, Len(fx.filesList))
  /\ fx' = addFile(fx, DocPath(Len(fx.filesList) + 1),
                   Basename(DocPath(Len(fx.filesList) + 1)), CallTexts[1], 1)
  /\ out' = [Call("add") EXCEPT !.path = DocPath(Len(fx.filesList) + 1),
                                !.len = Len(fx.filesList)]
  /\ UNCHANGED <<syncVars, corpus, calls>>

\* fx.removeFile(p), whether or not p is indexed.
CallRemoveFile(p) ==
  /\ calls < MaxCalls
  /\ fx' = removeFile(fx, p)
  /\ out' = [Call("remove") EXCEPT !.path = p, !.len = Len(fx.filesList),
                                   !.threw = removeFileThrows(fx, p)]
  /\ calls' = calls + 1
  /\ UNCHANGED <<syncVars, corpus>>

\* searchFiles(fx, query, page)
CallSearch(query, page) ==
  /\ \E r \in {searchFiles(fx, query, page)} :
       out' = [op |-> "search", path |-> <<>>, len |-> Len(fx.filesList),
               query |-> query, page |-> page, threw |-> r.threw, res |-> r]
  /\ UNCHANGED <<syncVars, fx, corpus, calls>>

\* The snapshot of fx is written and loaded into a new FileIndex, as a save
\* followed by a fast-path startup does.
SaveAndLoad ==
  /\ calls < MaxCalls
  /\ fx' = deserialize(NewFileIndex, serialize(fx))
  /\ out' = [Call("load") EXCEPT !.len = Len(fx.filesList),
                                 !.threw = RebuildThrows(fx.files, fx.filesList)]
  /\ calls' = calls + 1
  /\ UNCHANGED <<syncVars, corpus>>

IndexNext ==
  \/ \E p \in CallPaths, t \in 1..Len(CallTexts) : CallAddFile(p, t)
  \/ CallAddNext
  \/ \E p \in CallPaths \cup {DocPath(1)} : CallRemoveFile(p)
  \/ \E query \in QueriesOf(corpus), page \in PagesOf(corpus) :
       CallSearch(query, page)
  \/ SaveAndLoad

IndexSpec == IndexInit /\ [][IndexNext]_vars

\* ------------------------------------------------- vocabulary of the claims

\* The paths of the Document Table of index ix.
IndexedPaths(ix) == {ix.filesList[i].path : i \in 1..Len(ix.filesList)}

\* The key set of the current scan.
ScanKeys == MapKeys(collectFiles(disk))

\* The scanned files the process may read.
ReadableKeys == {p \in ScanKeys : disk[p].readable}

AllReadable == \A p \in Paths : disk[p].readable

\* The persisted table as a map, empty when the file is absent.
OldMTimes == IF existsSync(mTimeFile) /\ ~ParseFails(mTimeFile)
             THEN mTimeFile.data ELSE <<>>

\* The scanned paths the persisted table does not record as up to date.
ChangedKeys == {p \in ScanKeys : MTimeDiffers(OldMTimes, p, disk[p].ver)}

\* Path p is indexed in ix with the content its file holds now.
HoldsCurrent(ix, p) ==
  /\ MapHas(ix.files, p)
  /\ MapGet(ix.files, p).content = ContentOf(disk[p].ver)
  /\ MapGet(ix.files, p).mtime = disk[p].ver

\* The live index shows exactly the files on disk, each with its content.
Synced ==
  /\ index # Null
  /\ IndexedPaths(index) = ScanKeys
  /\ \A p \in ScanKeys : HoldsCurrent(index, p)

\* Both artifacts parse and describe the same files at the same timestamps.
CacheConsistent ==
  /\ ~ParseFails(cacheFile) /\ ~ParseFails(mTimeFile)
  /\ MapKeys(cacheFile.data.files) = MapKeys(mTimeFile.data)
  /\ \A p \in MapKeys(mTimeFile.data) :
       MapGet(cacheFile.data.files, p).mtime = MapGet(mTimeFile.data, p)

\* The artifacts on disk are the snapshot of the live index and the table of
\* the current scan.
Persisted ==
  /\ ~ParseFails(cacheFile) /\ ~ParseFails(mTimeFile)
  /\ cacheFile.data.files = index.files
  /\ cacheFile.data.filesList = index.filesList
  /\ mTimeFile.data = collectFiles(disk)

\* ------------------------------------------------------------------ claims

\* C1: a delta sync (startup with a stale cache, or a scheduled tick) that
\* starts from a readable snapshot and table describing the same file set,
\* with every scanned file readable, leaves exactly the scanned paths
\* indexed, the changed ones with their newly read content.
C1_DeltaSyncExact ==
  [][(/\ last'.op \in {"initialize", "tick"}
      /\ last'.route = "delta"
      /\ CacheConsistent
      /\ AllReadable)
     => (/\ index' # Null
         /\ IndexedPaths(index') = ScanKeys
         /\ \A p \in ChangedKeys : HoldsCurrent(index', p))]_vars

\* C2: with no snapshot on disk, initialize reads and adds every file of the
\* scan, whether or not a modification-time table is still there.
C2_NoSnapshotFullRebuild ==
  [][(/\ last'.op = "initialize"
      /\ ~existsSync(cacheFile)
      /\ AllReadable)
     => (/\ index' # Null
         /\ last'.reads = ScanKeys
         /\ IndexedPaths(index') = ScanKeys)]_vars

\* C3: with a snapshot that does not parse, initialize rebuilds in full: the
\* index and the snapshot it writes hold every readable file of the scan.
C3_CorruptSnapshotFullRebuild ==
  [][(/\ last'.op = "initialize"
      /\ last'.wr = "ok"
      /\ existsSync(cacheFile) /\ ParseFails(cacheFile))
     => (/\ index' # Null
         /\ ReadableKeys \subseteq IndexedPaths(index')
         /\ ~ParseFails(cacheFile')
         /\ ReadableKeys \subseteq MapKeys(cacheFile'.data.files))]_vars

\* C4: with a modification-time table that does not parse, initialize still
\* completes and returns an index holding every readable file of the scan.
C4_CorruptTableNoFailure ==
  [][(/\ last'.op = "initialize"
      /\ existsSync(mTimeFile) /\ ParseFails(mTimeFile))
     => (/\ ~last'.threw
         /\ index' # Null
         /\ ReadableKeys \subseteq IndexedPaths(index'))]_vars

\* C5: in every scan (startup or tick) an unreadable changed file is skipped
\* and nothing else is lost: the other changed files are indexed, the
\* deleted ones are removed and the sync reaches its writes.
C5_UnreadableSkipped ==
  [][(/\ last'.op \in {"initialize", "tick"}
      /\ last'.route # "fast"
      /\ last'.wr = "ok"
      /\ ~(existsSync(mTimeFile) /\ ParseFails(mTimeFile))
      /\ \E p \in ChangedKeys : ~disk[p].readable)
     => (/\ index' # Null
         /\ \A p \in ChangedKeys \cap ReadableKeys : HoldsCurrent(index', p)
         /\ \A p \in MapKeys(OldMTimes) \ ScanKeys : p \notin IndexedPaths(index')
         /\ last'.wrote = {"cache", "mtime"})]_vars

\* C6: at startup with both artifacts readable, the table as long as the
\* scan and equal to it on every scanned path, initialize reads no file,
\* writes no artifact and returns the snapshot's Document Table; and the
\* fast path is only ever taken when table and scan have the same paths.
C6_FastPath ==
  [][/\ (/\ last'.op = "initialize"
         /\ ~ParseFails(cacheFile) /\ ~ParseFails(mTimeFile)
         /\ Len(mTimeFile.data) = Len(collectFiles(disk))
         /\ \A p \in ScanKeys : ~MTimeDiffers(mTimeFile.data, p, disk[p].ver))
        => (/\ last'.route = "fast"
            /\ last'.reads = {} /\ last'.wrote = {}
            /\ cacheFile' = cacheFile /\ mTimeFile' = mTimeFile
            /\ index' # Null
            /\ index'.files = cacheFile.data.files
            /\ index'.filesList = cacheFile.data.filesList)
     /\ (last'.op = "initialize" /\ last'.route = "fast")
        => MapKeys(mTimeFile.data) = ScanKeys]_vars

\* C6 witness: a startup that took the fast path onto a non-empty snapshot.
C6_Witness ==
  /\ last.op = "initialize" /\ last.route = "fast"
  /\ index # Null /\ Len(index.filesList) = NumPaths

\* C7: a failed cache write is not fatal and leaves the index as a working
\* write would; the next sync whose writes work leaves on disk the snapshot
\* of the live Document Table and the table of the current scan.
C7_FailedWriteRetried ==
  [][/\ (last'.op \in {"initialize", "tick"} /\ last'.wr # "ok")
        => (/\ proc' = "up" /\ index' # Null
            /\ last'.op = "initialize"
               => index' = initializeIndex(disk, cacheFile, mTimeFile, "ok").index
            /\ last'.op = "tick"
               => index' = rebuildIndexCache(index, disk, cacheFile, mTimeFile,
                                             "ok").index)
     /\ (/\ pendingWrite
         /\ last'.op \in {"initialize", "tick"} /\ last'.wr = "ok"
         /\ ~last'.threw
         /\ AllReadable
         /\ index' # Null /\ Len(index'.filesList) > 0)
        => Persisted']_vars

\* C8: after the process died inside a sync (before the writes or between
\* them), the next startup leaves exactly the files on disk indexed, each
\* with its current content.
C8_CrashRecovery ==
  [][(/\ proc = "crashed"
      /\ last'.op = "initialize"
      /\ AllReadable)
     => Synced']_vars

\* The next tick would change neither the index nor the artifacts, so with
\* the files at rest every later tick finds the same state again.
TickAtRest ==
  LET r == rebuildIndexCache(index, disk, cacheFile, mTimeFile, "ok")
  IN  r.index = index /\ r.cacheFile = cacheFile /\ r.mTimeFile = mTimeFile

\* C9: with the scheduler armed, once the files stop changing and stay
\* readable, the ticks bring the live index to the state of the disk: when
\* they have nothing left to do, index and disk are equal.
C9_EventuallySynced == (quiet /\ TickAtRest) => Synced

\* C10: at most one rebuild timer is active, arming again cancels the
\* pending timer first, and an initialize with a non-positive interval has
\* armed no timer.
C10_OneTimer ==
  /\ Cardinality(timer.timers) <= 1
  /\ timer.rebuildSchedule # NoTimer => timer.timers = {timer.rebuildSchedule}
  /\ Cardinality(scheduleRebuild(timer).timers) = 1
  /\ (last.op = "initialize" /\ last.hours <= 0) => timer.timers = {}

\* C10 witness: a startup with a positive interval has armed its one timer.
C10_Witness ==
  /\ last.op = "initialize" /\ last.hours > 0 /\ ~last.threw
  /\ Cardinality(timer.timers) = 1

\* What a tick compares: some scanned file is new or has another timestamp
\* than the persisted table records, or some recorded file is gone.
TickDetects ==
  \/ ChangedKeys # {}
  \/ MapKeys(OldMTimes) \ ScanKeys # {}

\* C11: a scheduled tick whose writes work writes both artifacts exactly when
\* it detected an added, changed or deleted file, and a tick that detected
\* nothing leaves the two artifacts and the live index as they were.
C11_WriteIffChange ==
  [][(/\ last'.op = "tick"
      /\ last'.wr = "ok"
      /\ ~(existsSync(mTimeFile) /\ ParseFails(mTimeFile)))
     => (/\ last'.hasChanges <=> TickDetects
         /\ TickDetects <=> last'.wrote = {"cache", "mtime"}
         /\ ~TickDetects => (/\ cacheFile' = cacheFile
                             /\ mTimeFile' = mTimeFile
                             /\ index' = index))]_vars

\* No path occurs twice in the Document Table of ix, and the table's paths
\* are the keys of the content map.
UniquePaths(ix) ==
  /\ \A i, j \in 1..Len(ix.filesList) :
       ix.filesList[i].path = ix.filesList[j].path => i = j
  /\ IndexedPaths(ix) = MapKeys(ix.files)

\* Result r of a search lists the document at path p.
Returns(r, p) == \E i \in 1..Len(r.results) : r.results[i].path = p

\* C12: removing an indexed document shortens the Document Table by exactly
\* one and no query of either mode returns the document afterwards; on an
\* index without duplicate paths neither the removal nor the queries after
\* it throw; removing a path that is not indexed changes nothing.
C12_AddThenRemove ==
  [][out'.op = "remove"
     => IF MapHas(fx.files, out'.path)
        THEN /\ Len(fx'.filesList) = Len(fx.filesList) - 1
             /\ \A q \in QueriesOf(corpus) :
                  /\ ~Returns(searchFiles(fx', q, 1), out'.path)
                  /\ UniquePaths(fx) => ~searchFiles(fx', q, 1).threw
             /\ UniquePaths(fx) => ~out'.threw
        ELSE fx' = fx]_vars

\* C12 witness: a document was removed from an index that still holds others,
\* and some query returns every document that remains.
C12_Witness ==
  /\ out.op = "remove" /\ ~out.threw
  /\ Len(fx.filesList) = out.len - 1
  /\ \E q \in QueriesOf(corpus) :
       /\ searchFiles(fx, q, 1).total = Len(fx.filesList)
       /\ searchFiles(fx, q, 1).total > 0

\* The tokens of the content of the document at position i (zero-based) of
\* ix, none when the content map has no entry for its path.
TokensAt(ix, i) ==
  IF MapHas(ix.files, ix.filesList[i + 1].path)
  THEN tokenize(MapGet(ix.files, ix.filesList[i + 1].path).content)
  ELSE {}

\* The posting set of token t in ix.
Posting(ix, t) == IF t \in DOMAIN ix.wordIndex THEN ix.wordIndex[t] ELSE {}

\* Every token that occurs in a posting list or in a document of ix.
TokensOf(ix) ==
  (DOMAIN ix.wordIndex) \cup UNION {TokensAt(ix, i) : i \in 0..(Len(ix.filesList) - 1)}

\* C13: after any sequence of addFile and removeFile calls on any paths,
\* every ordinal of every posting set is a position of the Document Table,
\* and the posting set of a token is the set of positions whose document
\* has the token in its content.
C13_OrdinalsAndPostings ==
  \A t \in TokensOf(fx) :
    /\ Posting(fx, t) \subseteq 0..(Len(fx.filesList) - 1)
    /\ Posting(fx, t) = {i \in 0..(Len(fx.filesList) - 1) : t \in TokensAt(fx, i)}

\* The latest call was a search that reached FileIndex.search and returned.
Searched == out.op = "search" /\ ~out.threw /\ Len(trim(out.query)) > 0

\* The query FileIndex.search was called with.
Asked == trim(out.query)

\* The paths a result lists.
ReturnedPaths(r) == {r.results[i].path : i \in 1..Len(r.results)}

\* The ordinals in the posting sets of the tokens of query q.
Union(ix, q) == UNION {Posting(ix, t) : t \in tokenize(q)}

\* C14: a query with fewer than two CJK characters returns the documents
\* whose ordinals are in the union of the posting sets of its tokens, all of
\* them counted in total; so, the posting sets being those of the documents'
\* contents, a document with any one query word is returned; and a returned
\* document none of whose lines includes the query has an empty hit list.
C14_TokenModeUnion ==
  (Searched /\ ~isMultiCJK(Asked))
  => /\ out.res.total = Cardinality(Union(fx, Asked))
     /\ ReturnedPaths(out.res) \subseteq
          {fx.filesList[i + 1].path : i \in Union(fx, Asked)}
     /\ out.res.total <= PerPage
        => Len(out.res.results) = Cardinality(Union(fx, Asked))
     /\ C13_OrdinalsAndPostings
        => \A i \in 0..(Len(fx.filesList) - 1) :
             (TokensAt(fx, i) \cap tokenize(Asked) # {} /\ out.res.total <= PerPage)
             => fx.filesList[i + 1].path \in ReturnedPaths(out.res)
     /\ \A k \in 1..Len(out.res.results) :
          LineCount(MapGet(fx.files, out.res.results[k].path).content, Asked) = 0
          => out.res.results[k].hits = <<>>

\* C14 witness: the query "a b" on two documents, one with the content "a"
\* and one with the content "b", returned both with no hits.
C14_Witness ==
  /\ Searched /\ Asked = <<97, 32, 98>>
  /\ UniquePaths(fx) /\ Len(fx.filesList) = 2
  /\ {MapGet(fx.files, fx.filesList[i].path).content : i \in 1..2}
       = {<<97>>, <<98>>}
  /\ out.res.total = 2
  /\ \A k \in 1..2 : out.res.results[k].hits = <<>>

\* A character of the scripts the tokenizer is to treat one by one: Han
\* ideographs, Hiragana, Katakana, Hangul syllables.
IsCJK(c) ==
  \/ c \in 19968..40959
  \/ c \in 12352..12447
  \/ c \in 12448..12543
  \/ c \in 44032..55215

\* Query q is a run of two or more CJK characters.
IsCJKPhrase(q) == Len(q) >= 2 /\ \A k \in 1..Len(q) : IsCJK(q[k])

\* Some line of the document at position i (zero-based) includes q.
LineIncludes(ix, i, q) ==
  /\ MapHas(ix.files, ix.filesList[i + 1].path)
  /\ LineCount(MapGet(ix.files, ix.filesList[i + 1].path).content, q) > 0

\* C15: a query of several contiguous CJK characters returns a document if
\* and only if one of its lines includes the query as it stands; characters
\* that are apart in a line or on different lines do not count.
C15_PhraseExact ==
  (Searched /\ IsCJKPhrase(Asked) /\ out.res.total <= PerPage)
  => \A i \in 0..(Len(fx.filesList) - 1) :
       fx.filesList[i + 1].path \in ReturnedPaths(out.res)
         <=> \E j \in 0..(Len(fx.filesList) - 1) :
               /\ fx.filesList[j + 1].path = fx.filesList[i + 1].path
               /\ LineIncludes(fx, j, Asked)

\* C20: search takes a query with two or more characters of the four CJK
\* scripts in phrase mode and any other query in token mode, and a query of
\* two or more such characters returns every document one of whose lines
\* includes it, whichever of the four scripts it is written in.
C20_Classification ==
  Searched
  => /\ isMultiCJK(Asked)
          <=> Cardinality({k \in 1..Len(Asked) : IsCJK(Asked[k])}) >= 2
     /\ (IsCJKPhrase(Asked) /\ out.res.total <= PerPage)
        => \A i \in 0..(Len(fx.filesList) - 1) :
             LineIncludes(fx, i, Asked)
             => fx.filesList[i + 1].path \in ReturnedPaths(out.res)

\* The least number of pages of PerPage entries that hold n entries.
PagesFor(n) == CHOOSE k \in 0..n : k * PerPage >= n /\ (k = 0 \/ (k - 1) * PerPage < n)

\* C16: search returns the length R of the ranked list as total,
\* ceil(R / 15) as totalPages, page 1 when R = 0 and otherwise the requested
\* page clamped into 1..totalPages, and as results the ranked entries from
\* position (page - 1) * 15 to position min(page * 15, R) - 1.
C16_Pagination ==
  Searched
  => LET ranked == Results(fx, Asked)
         R == Len(ranked)
         res == out.res
     IN  /\ res.total = R
         /\ res.totalPages = PagesFor(R)
         /\ R = 0 => res.page = 1
         /\ R > 0 => /\ res.page \in 1..res.totalPages
                     /\ out.page \in 1..res.totalPages => res.page = out.page
                     /\ out.page < 1 => res.page = 1
                     /\ out.page > res.totalPages => res.page = res.totalPages
         /\ Len(res.results) =
              (IF res.page * PerPage < R THEN res.page * PerPage ELSE R)
                - (res.page - 1) * PerPage
         /\ \A k \in 1..Len(res.results) :
              res.results[k] = ranked[(res.page - 1) * PerPage + k]

\* C16 witness: sixteen results, page 2 asked for, one result returned.
C16_Witness ==
  /\ Searched /\ out.page = 2
  /\ out.res.total = PerPage + 1 /\ out.res.totalPages = 2 /\ out.res.page = 2
  /\ Len(out.res.results) = 1

\* The numbers (from 1) of the lines of content that include query q.
MatchingLines(content, q) ==
  {n \in 1..Len(split(content)) : includes(split(content)[n], q)}

\* C17: a returned document with k lines that include the query has
\* min(3, k) hits; they are the first such lines in file order, each with
\* its line number counted from 1 and the text of that line.
C17_HitCap ==
  Searched
  => \A e \in Range(out.res.results) :
       LET content == MapGet(fx.files, e.path).content
           M == MatchingLines(content, Asked)
       IN  /\ Len(e.hits) = (IF Cardinality(M) < 3 THEN Cardinality(M) ELSE 3)
           /\ \A j \in 1..Len(e.hits) :
                /\ e.hits[j].lineNum \in M
                /\ Cardinality({n \in M : n < e.hits[j].lineNum}) = j - 1
                /\ e.hits[j].content = trim(split(content)[e.hits[j].lineNum])

\* C17 witness: a document with four lines that include the query was
\* returned with the hits of lines 1, 2 and 4, line 3 not including it.
C17_Witness ==
  /\ Searched
  /\ \E e \in Range(out.res.results) :
       /\ Cardinality(MatchingLines(MapGet(fx.files, e.path).content, Asked)) = 4
       /\ [j \in 1..Len(e.hits) |-> e.hits[j].lineNum] = <<1, 2, 4>>

\* C18: loading the snapshot of an index gives a Document Table with the
\* same paths in the same order and the same names, contents and timestamps,
\* and posting lists with the same candidates for every token.
C18_RoundTrip ==
  [][out'.op = "load"
     => /\ ~out'.threw
        /\ fx'.files = fx.files
        /\ fx'.filesList = fx.filesList
        /\ \A t \in TokensOf(fx) \cup TokensOf(fx') :
             Posting(fx', t) = Posting(fx, t)]_vars

\* The place (from 1) in the ranked list of the k-th enumerated candidate of
\* E: behind every candidate with a greater count and behind the candidates
\* with the same count that were enumerated before it.
RankOf(E, k) ==
  1 + Cardinality({j \in 1..Len(E) : E[j].matches > E[k].matches})
    + Cardinality({j \in 1..(k - 1) : E[j].matches = E[k].matches})

\* C19: in both modes the result list is in the order of non-increasing
\* match count, candidates with equal counts staying in the order in which
\* they were enumerated (by ordinal in phrase mode).
C19_Ranking ==
  Searched
  => LET E == matchedFiles(fx, Asked)
         first == (out.res.page - 1) * PerPage
     IN  /\ out.res.total = Len(E)
         /\ \A k \in 1..Len(E) :
              RankOf(E, k) \in (first + 1)..(first + Len(out.res.results))
              => out.res.results[RankOf(E, k) - first].path = E[k].path
         /\ isMultiCJK(Asked)
            => \A k \in 1..(Len(E) - 1) : E[k].index < E[k + 1].index

\* C19 witness: three candidates, one with a greater count enumerated
\* behind one with a smaller count, and two with the same count.
C19_Witness ==
  /\ Searched /\ UniquePaths(fx)
  /\ Len(matchedFiles(fx, Asked)) = 3 /\ Len(out.res.results) = 3
  /\ \E i, j \in 1..3 :
       /\ i < j
       /\ matchedFiles(fx, Asked)[i].matches < matchedFiles(fx, Asked)[j].matches
  /\ \E i, j \in 1..3 :
       /\ i < j
       /\ matchedFiles(fx, Asked)[i].matches = matchedFiles(fx, Asked)[j].matches

\* The scanned paths whose timestamp is the one the persisted table records.
UnchangedKeys ==
  {p \in ScanKeys : MapHas(OldMTimes, p) /\ MapGet(OldMTimes, p) = disk[p].ver}

\* The content map a delta sync starts from: the live index for a tick, the
\* snapshot on disk for a startup.
FilesBefore ==
  IF index # Null THEN index.files
  ELSE IF existsSync(cacheFile) /\ ~ParseFails(cacheFile) THEN cacheFile.data.files
  ELSE <<>>

\* C21: a startup delta sync or a tick does not read a file whose timestamp
\* equals its persisted timestamp, and the document of such a file keeps the
\* content and the timestamp it had before the sync.
C21_UnchangedUntouched ==
  [][(/\ last'.op \in {"initialize", "tick"}
      /\ last'.route = "delta")
     => \A p \in UnchangedKeys :
          /\ p \notin last'.reads
          /\ MapHas(FilesBefore, p)
             => /\ index' # Null
                /\ MapHas(index'.files, p)
                /\ MapGet(index'.files, p) = MapGet(FilesBefore, p)]_vars

\* C21 witness: a delta sync has read one file and kept the document of
\* another, whose timestamp is the persisted one.
C21_Witness ==
  /\ last.op \in {"initialize", "tick"} /\ last.route = "delta"
  /\ last.reads # {}
  /\ index # Null
  /\ \E p \in UnchangedKeys \ last.reads :
       MapHas(index.files, p) /\ MapGet(index.files, p).mtime = disk[p].ver

\* C22: whatever startup syncs and ticks have run, aborted ticks and failed
\* writes included, no path occurs twice in the Document Table of the live
\* index and the table's paths are the keys of its content map.
C22_PathsUnique == index # Null => UniquePaths(index)

\* C22 witness: a startup delta sync whose snapshot write failed has read a
\* file that the snapshot it started from holds at another timestamp, so it
\* indexed again a path that was indexed.
C22_Witness ==
  /\ last.op = "initialize" /\ last.route = "delta" /\ last.wr = "failCache"
  /\ index # Null /\ ~ParseFails(cacheFile)
  /\ \E p \in last.reads :
       /\ MapHas(cacheFile.data.files, p) /\ MapHas(index.files, p)
       /\ MapGet(cacheFile.data.files, p).mtime # MapGet(index.files, p).mtime

\* C23: when one sync has written both artifacts, the persisted table has
\* the paths of the persisted snapshot as its keys; a file that could not be
\* read, which the snapshot does not hold, is not in the table either.
C23_TableMatchesSnapshot ==
  [][(/\ last'.op \in {"initialize", "tick"}
      /\ last'.wrote = {"cache", "mtime"})
     => /\ MapKeys(mTimeFile'.data) = MapKeys(cacheFile'.data.files)
        /\ \A p \in ScanKeys \ ReadableKeys :
             ~MapHas(cacheFile'.data.files, p) => ~MapHas(mTimeFile'.data, p)]_vars

\* ------------------------------------------------------------ the event loop

\* A synchroniser that awaits the promise API of fs at its read and at its
\* writes.
IOCallAwaited(pc) ==
  IF pc = "read" THEN "readFile"
  ELSE IF pc = "save" THEN "writeFile"
  ELSE "none"

\* The file system call a synchroniser makes at each of its positions:
\* "compare" is the head of the changed-files loop up to the removal of the
\* old entry (lines 288-296, 399-404), "read" the read and addFile of one
\* file (297-298, 405-406), "deleted" the loop over the recorded files that
\* are gone (305-311, 410-416), "save" the two writes (316-317, 425-426).
IOCall(pc) ==
  IF pc = "read" THEN "readFileSync"
  ELSE IF pc = "save" THEN "writeFileSync"
  ELSE "none"

\* A call that returns before the event loop gets control again.
Blocking(call) == call \in {"none", "readFileSync", "writeFileSync"}

\* The function is suspended at position pc until its I/O completes.
AwaitsAt(pc) == ~Blocking(IOCall(pc))

\* The event loop runs a timer callback or a request handler when no
\* function is on the stack, or the one on it is suspended.
Dispatchable(stack) == IF stack = <<>> THEN TRUE ELSE AwaitsAt(stack[1].pc)

\* The locals of a synchroniser that has scanned the data directory and is
\* about to enter its changed-files loop; limbo holds the path whose old
\* entry the current iteration has removed and not yet added again.
Frame(fn, currentFiles, oldMTimes) ==
  [fn |-> fn, pc |-> "compare", i |-> 1, currentFiles |-> currentFiles,
   oldMTimes |-> oldMTimes, hasChanges |-> FALSE, limbo |-> {},
   reindexed |-> {}]

\* The paths removed and not yet added again by the syncs in progress.
Limbo(stack) == UNION {stack[k].limbo : k \in 1..Len(stack)}

\* What a step of the event loop model leaves in last: for the step that
\* ends a sync, the paths the sync removed and added again.
LoopStep(op, threw, reindexed) ==
  [op |-> op, threw |-> threw, reindexed |-> reindexed]

\* The queries sent to the search endpoint: "a", "b".
LoopQueries == {<<97>>, <<98>>}

\* The variables no step of the process changes.
loopFrame == <<disk, scenario, quiet, pendingWrite, changes, fx, corpus, calls, out>>

LoopInit ==
  /\ disk = [p \in Paths |-> NoFile]
  /\ cacheFile = Absent
  /\ mTimeFile = Absent
  /\ index = Null
  /\ timer = NoTimers
  /\ proc = <<>>
  /\ scenario \in {"io", "tamper"}
  /\ quiet = FALSE
  /\ pendingWrite = FALSE
  /\ changes = 0
  /\ last = LoopStep("none", FALSE, {})
  /\ fx = NewFileIndex
  /\ corpus = "words"
  /\ calls = 0
  /\ out = Call("none")

\* server.js line 31, initializeIndex(dataPath, 24), up to the loop of line
\* 288: the fast path returns at once, a modification-time file that does
\* not parse kills the process at line 285.
BeginInitialize ==
  /\ proc = <<>> /\ index = Null
  /\ LET currentFiles == collectFiles(disk)
     IN  IF FastPath(cacheFile, mTimeFile, currentFiles)
         THEN /\ index' = deserialize(NewFileIndex, cacheFile)
              /\ timer' = IF ShouldSchedule(24) THEN scheduleRebuild(NoTimers)
                          ELSE NoTimers
              /\ proc' = <<>>
              /\ last' = LoopStep("initializeIndex", FALSE, {})
         ELSE IF existsSync(mTimeFile) /\ ParseFails(mTimeFile)
         THEN /\ index' = Null
              /\ timer' = NoTimers
              /\ proc' = <<>>
              /\ last' = LoopStep("initializeIndex", TRUE, {})
         ELSE /\ index' = StartIndex(cacheFile, mTimeFile, currentFiles)
              /\ timer' = NoTimers
              /\ proc' = << Frame("initializeIndex", currentFiles,
                                  IF existsSync(mTimeFile) THEN mTimeFile.data
                                  ELSE <<>>) >>
              /\ last' = LoopStep("begin", FALSE, {})
  /\ UNCHANGED <<cacheFile, mTimeFile>>
  /\ UNCHANGED loopFrame

\* The interval timer's callback (lines 366-368) is run:
\* rebuildIndexCache(dataDir) up to the loop of line 399.  A table that does
\* not parse throws at line 395 into the catch of line 436.
BeginTick ==
  /\ timer.timers # {} /\ index # Null
  /\ Dispatchable(proc) /\ Len(proc) < MaxDepth
  /\ IF existsSync(mTimeFile) /\ ParseFails(mTimeFile)
     THEN /\ proc' = proc
          /\ last' = LoopStep("rebuildIndexCache", TRUE, {})
     ELSE /\ proc' = << Frame("rebuildIndexCache", collectFiles(disk),
                              IF existsSync(mTimeFile) THEN mTimeFile.data
                              ELSE <<>>) >> \o proc
          /\ last' = LoopStep("begin", FALSE, {})
  /\ UNCHANGED <<cacheFile, mTimeFile, index, timer>>
  /\ UNCHANGED loopFrame

\* The running synchroniser takes the next scanned file: it leaves the loop
\* after the last one, skips a file whose timestamp is the recorded one, and
\* removes the old entry of a changed file (lines 288-296, 399-404).
SyncCompare ==
  /\ proc # <<>> /\ proc[1].pc = "compare"
  /\ LET f == proc[1]
     IN  IF f.i > Len(f.currentFiles)
         THEN /\ proc' = << [f EXCEPT !.pc = "deleted"] >> \o Tail(proc)
              /\ index' = index
         ELSE IF ~MTimeDiffers(f.oldMTimes, f.currentFiles[f.i][1],
                               f.currentFiles[f.i][2])
         THEN /\ proc' = << [f EXCEPT !.i = f.i + 1] >> \o Tail(proc)
              /\ index' = index
         ELSE /\ proc' = << [f EXCEPT !.pc = "read", !.hasChanges = TRUE,
                                      !.limbo = IF MapHas(index.files,
                                                          f.currentFiles[f.i][1])
                                                THEN {f.currentFiles[f.i][1]}
                                                ELSE {}] >> \o Tail(proc)
              /\ index' = IF MapHas(index.files, f.currentFiles[f.i][1])
                          THEN removeFile(index, f.currentFiles[f.i][1])
                          ELSE index
  /\ last' = LoopStep("compare", FALSE, {})
  /\ UNCHANGED <<cacheFile, mTimeFile, timer>>
  /\ UNCHANGED loopFrame

\* The running synchroniser reads the changed file and adds it (lines
\* 297-298, 405-406).  A read that throws (no permission, or the file was
\* deleted since the scan) is caught per file by initializeIndex (line 299)
\* and ends rebuildIndexCache (line 436).
SyncRead ==
  /\ proc # <<>> /\ proc[1].pc = "read"
  /\ LET f == proc[1]
         filepath == f.currentFiles[f.i][1]
         mtime == f.currentFiles[f.i][2]
     IN  IF ReadThrows(disk, filepath) \/ disk[filepath].ver = 0
         THEN /\ index' = index
              /\ IF f.fn = "initializeIndex"
                 THEN /\ proc' = << [f EXCEPT !.pc = "compare", !.i = f.i + 1,
                                              !.limbo = {}] >> \o Tail(proc)
                      /\ last' = LoopStep("read", FALSE, {})
                 ELSE /\ proc' = Tail(proc)
                      /\ last' = LoopStep("rebuildIndexCache", TRUE, f.reindexed)
         ELSE /\ index' = addFile(index, filepath, Basename(filepath),
                                  readFileSync(disk, filepath), mtime)
              /\ proc' = << [f EXCEPT !.pc = "compare", !.i = f.i + 1,
                                      !.limbo = {},
                                      !.reindexed = f.reindexed \cup f.limbo] >>
                           \o Tail(proc)
              /\ last' = LoopStep("read", FALSE, {})
  /\ UNCHANGED <<cacheFile, mTimeFile, timer>>
  /\ UNCHANGED loopFrame

\* The running synchroniser removes the recorded files that are gone (lines
\* 305-311, 410-416); a tick that has found no change ends here (line 430).
SyncDeleted ==
  /\ proc # <<>> /\ proc[1].pc = "deleted"
  /\ LET f == proc[1]
         hasChanges == f.hasChanges \/ SomeDeleted(f.oldMTimes, f.currentFiles)
     IN  /\ index' = RemoveDeleted(index, f.oldMTimes, f.currentFiles, 1)
         /\ IF f.fn = "rebuildIndexCache" /\ ~hasChanges
            THEN /\ proc' = Tail(proc)
                 /\ last' = LoopStep("rebuildIndexCache", FALSE, f.reindexed)
            ELSE /\ proc' = << [f EXCEPT !.pc = "save", !.hasChanges = hasChanges] >>
                              \o Tail(proc)
                 /\ last' = LoopStep("deleted", FALSE, {})
  /\ UNCHANGED <<cacheFile, mTimeFile, timer>>
  /\ UNCHANGED loopFrame

\* The running synchroniser writes the two artifacts (lines 316-317,
\* 425-426) and returns; initializeIndex then arms the timer (lines 324-326).
SyncSave(wr) ==
  /\ proc # <<>> /\ proc[1].pc = "save"
  /\ OutcomePossible(wr)
  /\ LET f == proc[1]
     IN  /\ cacheFile' = WriteCache(cacheFile, index, wr)
         /\ mTimeFile' = WriteMTimes(mTimeFile, f.currentFiles, wr)
         /\ timer' = IF f.fn = "initializeIndex" /\ ShouldSchedule(24)
                     THEN scheduleRebuild(timer) ELSE timer
         /\ last' = LoopStep(f.fn, f.fn = "rebuildIndexCache" /\ wr # "ok",
                             f.reindexed)
  /\ proc' = Tail(proc)
  /\ UNCHANGED index
  /\ UNCHANGED loopFrame

\* The process is terminated between two callbacks.
LoopStop ==
  /\ proc = <<>> /\ index # Null
  /\ index' = Null
  /\ timer' = NoTimers
  /\ last' = LoopStep("stop", FALSE, {})
  /\ UNCHANGED <<cacheFile, mTimeFile, proc>>
  /\ UNCHANGED loopFrame

\* The handler of POST /api/search (server.js lines 37-50) is run on the
\* index initializeIndex returned: searchFiles(db, query, 1).  last keeps
\* what the query met: whether a sync was in progress, the paths in limbo,
\* and the paths re-indexed by the sync that ended in the step before.
Query(query) ==
  /\ index # Null
  /\ Dispatchable(proc)
  /\ last' = [op |-> "query", threw |-> FALSE,
              reindexed |-> IF last.op \in {"initializeIndex", "rebuildIndexCache"}
                            THEN last.reindexed ELSE {},
              during |-> proc # <<>>,
              limbo |-> Limbo(proc),
              query |-> query,
              res |-> searchFiles(index, query, 1)]
  /\ UNCHANGED <<cacheFile, mTimeFile, index, timer, proc>>
  /\ UNCHANGED loopFrame

LoopNext ==
  \/ \E p \in Paths, v \in 1..MaxVer : FileWrite(p, v)
  \/ \E p \in Paths : FileDelete(p)
  \/ \E p \in Paths : Chmod(p)
  \/ \E which \in {"cache", "mtime"}, to \in {Absent, Corrupt} : Tamper(which, to)
  \/ BeginInitialize
  \/ BeginTick
  \/ SyncCompare
  \/ SyncRead
  \/ SyncDeleted
  \/ \E wr \in WriteOutcomes : SyncSave(wr)
  \/ LoopStop
  \/ \E query \in LoopQueries : Query(query)

LoopSpec == LoopInit /\ [][LoopNext]_vars

\* The posting set of every token of ix is the set of positions of the
\* Document Table whose document has the token in its content.
PostingsAgree(ix) ==
  \A t \in TokensOf(ix) :
    Posting(ix, t) = {i \in 0..(Len(ix.filesList) - 1) : t \in TokensAt(ix, i)}

\* C24: at most one synchroniser invocation is in progress at any time, and
\* a query is evaluated only when none is: it meets no document that a sync
\* has removed and not yet added again, and the posting lists it reads are
\* those of the Document Table it reads.
C24_SyncAtomic ==
  /\ Len(proc) <= 1
  /\ last.op = "query"
       => /\ ~last.during
          /\ last.limbo = {}
          /\ UniquePaths(index)
          /\ PostingsAgree(index)
          /\ ~last.res.threw
          /\ ReturnedPaths(last.res) \subseteq IndexedPaths(index)

\* C24 witness: a query evaluated right after a sync that had removed the
\* old entry of a changed file and added the file again returns that file.
C24_Witness ==
  /\ last.op = "query"
  /\ \E p \in last.reindexed : Returns(last.res, p)

====
